---- MODULE Spec2Model ----
(***************************************************************************)
(* Resource lifecycle and dependency tracking of render_graph_v2:          *)
(* SimpleResourceStore (resource/mod.rs), RenderDependencies and the       *)
(* RenderHandle generation bump (resource/mod.rs), NodeContext::get        *)
(* (render_graph_v2/mod.rs).                                               *)
(*                                                                         *)
(* A HashMap is a function whose DOMAIN is its key set.  An Option is a    *)
(* set with at most one element.  A call that panics leaves the state it   *)
(* had reached and records the panic in `result`.                          *)
(***************************************************************************)
EXTENDS Integers, FiniteSets, Sequences, TLC

\* ------------------------------------------------------------- bounds
\* Highest slot index (u16 in the source) the model hands to the store.
MaxIndex == 1
\* Number of distinct realized GPU objects (R::Data values).
MaxData == 1
\* Highest generation a handle is driven to by write declarations.
MaxGen == 2
\* Longest tuple of dependencies passed to of / add_many.
MaxDeps == 2
\* The same two bounds for the dependency set a running node was given.
MaxNodeGen == 1
MaxNodeDeps == 1
\* Most views with a Bloom that the prepare systems iterate over.
MaxViews == 2

\* ------------------------------------------------------ value domains
None == {}
Some(x) == {x}

Indices == 0..MaxIndex
Generations == 0..MaxGen
Descriptors == {"512x512_RGBA16F"}
Labels == {"history", "depth"}

RenderResourceId == [index : Indices, generation : Generations]

\* index, generation and RenderGraph::next_id are u16.  `x += 1` at 65535
\* panics in a build with overflow checks and wraps to 0 in one without.
U16Max == 65535
OverflowPanic == "panic: attempt to add with overflow"

RenderResourceMeta ==
    [descriptor : {None} \cup {Some(d) : d \in Descriptors}, resource : 1..MaxData]

\* A boxed FnOnce(&mut World, &RenderDevice) -> RenderResourceMeta<R>: the
\* closure is known by the meta it builds when it is called.
DeferredResourceInit == [produces : RenderResourceMeta]
Call(init) == init.produces

Eager(meta) == [tag |-> "Eager", body |-> Some(meta), thunk |-> None]
Deferred(init) == [tag |-> "Deferred", body |-> None, thunk |-> Some(init)]
RenderResourceInit ==
    {Eager(m) : m \in RenderResourceMeta} \cup {Deferred(d) : d \in DeferredResourceInit}

\* ------------------------------------------------------------ HashMap
EmptyMap == [k \in {} |-> {}]
Put(map, k, v) == [x \in DOMAIN map \cup {k} |-> IF x = k THEN v ELSE map[x]]
Lookup(map, k) == IF k \in DOMAIN map THEN Some(map[k]) ELSE None

\* A RenderBindGroup is an opaque id, compared by identity.
RenderBindGroup == {"bg0"}
\* The RenderHandle variables a graph author holds.
HandleNames == {"a", "b"}

VARIABLES
    store,      \* a SimpleResourceStore<R>: its four maps
    handles,    \* name -> the RenderHandle held in that variable
    deps,       \* the RenderDependencies being built, then given to the node
    frame,      \* history: what the running frame asked the store to hold
    marks,      \* history: index -> label of the running frame's mark_retain calls
    last_marked, \* history: label -> the index the frame marked with it last
    declared,   \* history: what the calls that built `deps` were given
    graph,      \* the RenderGraph: next_id and one store per resource kind
    phase,      \* history: where the frame stands in its cycle
    pipelines,  \* the PipelineCache and the two bloom SpecializedCaches
    world,      \* the views with a Bloom and the pipeline ids attached to them
    result      \* outcome of the last call

vars == <<store, handles, deps, frame, marks, last_marked, declared, graph, phase,
          pipelines, world, result>>

\* The bloom pipelines and the views they are prepared for.
bloom == <<pipelines, world>>

\* The state outside one store, the handle variables and the dependency set.
beyond == <<last_marked, declared, graph, phase, bloom>>

\* ------------------------------------------------ SimpleResourceStore
SimpleResourceStore_default ==
    [last_frame_resources |-> EmptyMap,
     current_resources |-> EmptyMap,
     queued_resources |-> EmptyMap,
     resources_to_save |-> EmptyMap]

\* SimpleResourceStore::insert: HashMap::insert on the map the variant names.
insert(s, key, resource) ==
    IF resource.tag = "Eager"
    THEN [s EXCEPT !.current_resources =
              Put(@, key.index, CHOOSE m \in resource.body : TRUE)]
    ELSE [s EXCEPT !.queued_resources =
              Put(@, key.index, CHOOSE d \in resource.thunk : TRUE)]

\* init_deferred with the insert into current_resources left out: the queue
\* is drained and what the initializers would build is lost.
init_deferred_dropping(s) == [s EXCEPT !.queued_resources = EmptyMap]

\* init_deferred building current_resources anew from the queue: what was
\* current before the call is lost.
init_deferred_replacing(s) ==
    [s EXCEPT
        !.current_resources =
            [i \in DOMAIN s.queued_resources |-> Call(s.queued_resources[i])],
        !.queued_resources = EmptyMap]

\* SimpleResourceStore::init_deferred: drains queued_resources, calling each
\* initializer and inserting what it builds under the same index.  The keys of
\* one map are distinct, so the drain order does not show in the outcome.
init_deferred(s) ==
    [s EXCEPT
        !.current_resources =
            [i \in DOMAIN s.current_resources \cup DOMAIN s.queued_resources |->
                IF i \in DOMAIN s.queued_resources
                THEN Call(s.queued_resources[i])
                ELSE s.current_resources[i]],
        !.queued_resources = EmptyMap]

\* SimpleResourceStore::get_data
get_data(s, key) == Lookup(s.current_resources, key.index)

\* The maps last_frame_resources can be after SimpleResourceStore::reset's
\* loop: every drained index with a save-mark inserts its meta under the
\* mark's label; when several indices carry one label the last one the
\* HashMap's drain yields stays, and that order is not specified.
PromotedMaps(s) ==
    LET marked == DOMAIN s.current_resources \cap DOMAIN s.resources_to_save
        labels == {s.resources_to_save[i] : i \in marked}
        winners == [l \in labels |-> {i \in marked : s.resources_to_save[i] = l}]
    IN  {[l \in labels |-> s.current_resources[w[l]]] :
            w \in {f \in [labels -> marked] : \A l \in labels : f[l] \in winners[l]}}

\* SimpleResourceStore::reset: last_frame_resources is cleared and refilled
\* from the drained current_resources; queued_resources and
\* resources_to_save are not touched.
reset(s, promoted) ==
    [s EXCEPT !.last_frame_resources = promoted,
              !.current_resources = EmptyMap]

\* The stubs of `impl RenderStore for SimpleResourceStore` and of
\* `impl RetainedRenderStore for SimpleResourceStore`: each body is todo!(),
\* which panics before touching the store.
TodoPanic == "panic: not yet implemented"
RenderStore_insert(s, key, data) == [store |-> s, outcome |-> TodoPanic]
RenderStore_get(s, key) == [value |-> None, outcome |-> TodoPanic]
RenderStore_init_queued_resources(s) == [store |-> s, outcome |-> TodoPanic]
RetainedRenderStore_mark_retain(s, key, label) == [store |-> s, outcome |-> TodoPanic]
RetainedRenderStore_get_retained(s, label) == [value |-> None, outcome |-> TodoPanic]

\* ------------------------------------------------ RenderDependencies
RenderHandle == [id : RenderResourceId]

RenderDependencies_default == [reads |-> {}, writes |-> {}, bind_groups |-> {}]

\* enum RenderDependency
Read(id) == [tag |-> "Read", id |-> Some(id), bind_group |-> None]
ReadWrite(id) == [tag |-> "ReadWrite", id |-> Some(id), bind_group |-> None]
BindGroup(bg) == [tag |-> "BindGroup", id |-> None, bind_group |-> Some(bg)]

\* What a caller passes as `impl IntoRenderDependency`: &h, &mut h for a
\* handle variable h, or &bg for a bind group.
Ref(name) == [kind |-> "&", name |-> name]
Mut(name) == [kind |-> "&mut", name |-> name]
BindGroupRef(bg) == [kind |-> "&bind_group", name |-> bg]
DependencyArgs ==
    {Ref(n) : n \in HandleNames} \cup {Mut(n) : n \in HandleNames}
        \cup {BindGroupRef(bg) : bg \in RenderBindGroup}

\* The & impl written like the &mut impl: the handle's generation advances.
into_render_dependency_ref_bumping(hs, name) ==
    [dep |-> Read(hs[name].id),
     handles |-> [hs EXCEPT ![name].id.generation = @ + 1]]

\* impl IntoRenderDependency for &RenderHandle<R>
into_render_dependency_ref(hs, name) ==
    [dep |-> Read(hs[name].id), handles |-> hs]

\* The &mut impl without `self.id.generation += 1`.
into_render_dependency_mut_keeping(hs, name) ==
    [dep |-> ReadWrite(hs[name].id), handles |-> hs]

\* impl IntoRenderDependency for &mut RenderHandle<R>: the dependency takes
\* the id as it is, then the handle's generation is advanced, in u16
\* arithmetic as a build without overflow checks computes it.  The panic a
\* build with overflow checks raises at 65535 is taken by the caller OfMut.
into_render_dependency_mut(hs, name) ==
    [dep |-> ReadWrite(hs[name].id),
     handles |-> [hs EXCEPT ![name].id.generation = (@ + 1) % (U16Max + 1)]]

\* impl IntoRenderDependency for &RenderBindGroup
into_render_dependency_bind_group(hs, bg) ==
    [dep |-> BindGroup(bg), handles |-> hs]

into_render_dependency(hs, arg) ==
    CASE arg.kind = "&" -> into_render_dependency_ref(hs, arg.name)
      [] arg.kind = "&mut" -> into_render_dependency_mut(hs, arg.name)
      [] OTHER -> into_render_dependency_bind_group(hs, arg.name)

\* IntoRenderDependencies for a tuple: vec![t1.into_render_dependency(), ...],
\* built left to right.
RECURSIVE into_render_dependencies(_, _)
into_render_dependencies(hs, args) ==
    IF args = <<>>
    THEN [deps |-> <<>>, handles |-> hs]
    ELSE LET first == into_render_dependency(hs, Head(args))
             rest == into_render_dependencies(first.handles, Tail(args))
         IN  [deps |-> <<first.dep>> \o rest.deps, handles |-> rest.handles]

\* The match of RenderDependencies::add and of add_many's loop body.
add_dependency(d, dep) ==
    CASE dep.tag = "Read" -> [d EXCEPT !.reads = @ \cup dep.id]
      [] dep.tag = "ReadWrite" -> [d EXCEPT !.writes = @ \cup dep.id]
      [] OTHER -> [d EXCEPT !.bind_groups = @ \cup dep.bind_group]

\* RenderDependencies::add
add(d, hs, arg) ==
    LET r == into_render_dependency(hs, arg)
    IN  [deps |-> add_dependency(d, r.dep), handles |-> r.handles]

RECURSIVE add_each(_, _)
add_each(d, dep_seq) ==
    IF dep_seq = <<>> THEN d
    ELSE add_each(add_dependency(d, Head(dep_seq)), Tail(dep_seq))

\* RenderDependencies::add_many
add_many(d, hs, args) ==
    LET r == into_render_dependencies(hs, args)
    IN  [deps |-> add_each(d, r.deps), handles |-> r.handles]

\* RenderDependencies::of
of(hs, args) == add_many(RenderDependencies_default, hs, args)

\* contains_resource comparing the slot only.
contains_resource_by_index(d, resource) ==
    \E id \in d.reads \cup d.writes : id.index = resource.id.index

\* RenderDependencies::contains_resource
contains_resource(d, resource) ==
    resource.id \in d.reads \/ resource.id \in d.writes

\* RenderDependencies::contains_bind_group
contains_bind_group(d, bind_group) == bind_group \in d.bind_groups

\* -------------------------------------------------------- NodeContext
AccessPanic ==
    "panic: Attempted to access a Render Resource not included in the node's dependencies"
ResolvePanic == "panic: Could not resolve render resource"
Ok == "ok"

\* RenderResource::from_data of the resource kind (texture.rs, buffer.rs):
\* the realized object the data holds.
from_data(data) == Some(data)

\* NodeContext::get with the dependency check left out.
NodeContext_get_unchecked(d, s, resource) ==
    LET found == RenderStore_get(s, resource.id.index)
        data == UNION {from_data(meta.resource) : meta \in found.value}
    IN  IF found.outcome # Ok
        THEN [outcome |-> found.outcome, value |-> None]
        ELSE IF data = None
             THEN [outcome |-> ResolvePanic, value |-> None]
             ELSE [outcome |-> Ok, value |-> data]

\* NodeContext::get: the dependency check, then the store's RenderStore::get
\* on the handle's index, from_data on what it finds, and expect().
NodeContext_get(d, s, resource) ==
    IF ~contains_resource(d, resource)
    THEN [outcome |-> AccessPanic, value |-> None]
    ELSE LET found == RenderStore_get(s, resource.id.index)
             data == UNION {from_data(meta.resource) : meta \in found.value}
         IN  IF found.outcome # Ok
             THEN [outcome |-> found.outcome, value |-> None]
             ELSE IF data = None
                  THEN [outcome |-> ResolvePanic, value |-> None]
                  ELSE [outcome |-> Ok, value |-> data]

\* NodeContext::get_bind_group: the dependency check, then todo!().
BindGroupAccessPanic ==
    "panic: Attempted to access a bind group not included in the node's dependencies"
NodeContext_get_bind_group(d, bind_group) ==
    IF ~contains_bind_group(d, bind_group)
    THEN [outcome |-> BindGroupAccessPanic, value |-> None]
    ELSE [outcome |-> TodoPanic, value |-> None]

\* -------------------------------------------------------- RenderGraph
\* The resource kinds the graph owns a store for, named by its fields.
Kinds == {"textures", "buffers"}

\* #[derive(Default)] RenderGraph
RenderGraph_default ==
    [next_id |-> 0,
     textures |-> SimpleResourceStore_default,
     buffers |-> SimpleResourceStore_default]

\* RenderGraph::reset: the body holds comments only.
RenderGraph_reset(g) == g

\* RenderGraph::run: the body holds a comment only.
RenderGraph_run(g) == g

\* run_render_graph: reset, then run.
run_render_graph(g) == RenderGraph_run(RenderGraph_reset(g))

\* impl IntoRenderResource for F: FnOnce(&RenderDevice) -> R.  The closure is
\* known by the object it builds; it is called at once and the meta carries
\* no descriptor.
into_render_resource(f) == Eager([descriptor |-> None, resource |-> f])

\* RenderGraphBuilder::new_resource: the outcomes the call can have.  The
\* store is reached through RenderResource::get_store_mut and its
\* RenderStore::insert; next_id += 1 on a u16 at 65535 panics in a build with
\* overflow checks and wraps in one without.
new_resource(g, kind, resource) ==
    LET next_id == g.next_id
        inserted == RenderStore_insert(g[kind], next_id, into_render_resource(resource))
        stored == [g EXCEPT ![kind] = inserted.store]
        handle == [id |-> [index |-> next_id, generation |-> 0]]
    IN  IF inserted.outcome # Ok
        THEN {[graph |-> stored, outcome |-> inserted.outcome, handle |-> None]}
        ELSE IF next_id < U16Max
             THEN {[graph |-> [stored EXCEPT !.next_id = next_id + 1],
                    outcome |-> Ok, handle |-> Some(handle)]}
             ELSE {[graph |-> stored, outcome |-> OverflowPanic, handle |-> None],
                   [graph |-> [stored EXCEPT !.next_id = 0],
                    outcome |-> Ok, handle |-> Some(handle)]}

\* RenderGraphBuilder::get_descriptor_of: RenderStore::get on the handle's
\* index through RenderResource::get_store, then and_then on the meta's
\* descriptor.
get_descriptor_of(g, kind, resource) ==
    LET found == RenderStore_get(g[kind], resource.id.index)
    IN  IF found.outcome # Ok
        THEN [outcome |-> found.outcome, value |-> None]
        ELSE [outcome |-> Ok, value |-> UNION {meta.descriptor : meta \in found.value}]

\* RenderGraphBuilder::descriptor_of: get_descriptor_of, then expect().
DescriptorPanic == "panic: No descriptor found for resource"
descriptor_of(g, kind, resource) ==
    LET got == get_descriptor_of(g, kind, resource)
    IN  IF got.outcome # Ok
        THEN got
        ELSE IF got.value = None
             THEN [outcome |-> DescriptorPanic, value |-> None]
             ELSE got

\* RenderGraphBuilder::add_node: todo!() before `self` is returned.
add_node(g, dependencies) == [graph |-> g, outcome |-> TodoPanic]

\* ----------------------------------------------------- bloom pipelines
\* What prepare_*_pipeline reads of a view's Bloom: prefilter.threshold,
\* scale and composite_mode.
BloomCompositeMode == {"EnergyConserving", "Additive"}
Thresholds == {0, 1}
Vec2_ONE == <<1, 1>>
Scales == {Vec2_ONE, <<2, 1>>}
Bloom == [threshold : Thresholds, scale : Scales, composite_mode : BloomCompositeMode]

BloomDownsamplingKey ==
    [prefilter : BOOLEAN, first_downsample : BOOLEAN, uniform_scale : BOOLEAN]
BloomUpsamplingKey == [composite_mode : BloomCompositeMode, final_pipeline : BOOLEAN]

\* The fields of a RenderPipelineDescriptor the specializers write, and of its
\* FragmentState.  base_descriptor of BloomDownsamplingPipeline::from_world:
DownsamplingBaseDescriptor ==
    [label |-> None,
     fragment |-> Some([entry_point |-> None,
                        shader_defs |-> <<>>,
                        targets |-> <<Some([format |-> "BLOOM_TEXTURE_FORMAT",
                                            blend |-> None])>>])]

\* base_descriptor of BloomUpsamplingPipeline::from_world
UpsamplingBaseDescriptor ==
    [label |-> Some("bloom_upsampling_pipeline"),
     fragment |-> Some([entry_point |-> Some("upsample"),
                        shader_defs |-> <<>>,
                        targets |-> <<>>])]

\* RenderPipelineDescriptor::fragment_mut: the fragment state, or the error
\* that there is none.
NoFragmentState == "Err: the descriptor has no fragment state"
fragment_mut(descriptor) ==
    IF descriptor.fragment = None
    THEN [outcome |-> NoFragmentState, fragment |-> None]
    ELSE [outcome |-> Ok, fragment |-> descriptor.fragment]

\* FragmentState::set_target: the target at `index` is replaced, the list
\* being grown up to it.
set_target(fragment, index, target) ==
    [fragment EXCEPT !.targets =
        [k \in 1..(IF Len(@) > index THEN Len(@) ELSE index + 1) |->
            IF k = index + 1 THEN Some(target)
            ELSE IF k <= Len(@) THEN @[k] ELSE None]]

UnwrapPanic == "panic: called Result::unwrap() on an Err value"

\* The label BloomDownsamplingSpecializer::specialize gives the descriptor.
downsampling_label(key, descriptor) ==
    [descriptor EXCEPT !.label =
        Some(IF key.first_downsample
             THEN "bloom_downsampling_pipeline_first"
             ELSE "bloom_downsampling_pipeline")]

\* The entry point and the shader defs with no push for uniform_scale.
downsampling_fragment_unscaled(key, fragment) ==
    [fragment EXCEPT
        !.entry_point = Some(IF key.first_downsample
                             THEN "downsample_first" ELSE "downsample"),
        !.shader_defs =
            @ \o (IF key.first_downsample THEN <<"FIRST_DOWNSAMPLE">> ELSE <<>>)
              \o (IF key.prefilter THEN <<"USE_THRESHOLD">> ELSE <<>>)]

\* The entry point and the shader defs it gives the fragment state.
downsampling_fragment(key, fragment) ==
    [fragment EXCEPT
        !.entry_point = Some(IF key.first_downsample
                             THEN "downsample_first" ELSE "downsample"),
        !.shader_defs =
            @ \o (IF key.first_downsample THEN <<"FIRST_DOWNSAMPLE">> ELSE <<>>)
              \o (IF key.prefilter THEN <<"USE_THRESHOLD">> ELSE <<>>)
              \o (IF key.uniform_scale THEN <<"UNIFORM_SCALE">> ELSE <<>>)]

\* BloomDownsamplingSpecializer::specialize with
\* descriptor.fragment_mut().unwrap() in place of descriptor.fragment_mut()?.
BloomDownsamplingSpecializer_specialize_unwrapping(key, descriptor) ==
    LET labelled == downsampling_label(key, descriptor)
        found == fragment_mut(labelled)
    IN  IF found.outcome # Ok
        THEN [outcome |-> UnwrapPanic, descriptor |-> labelled, key |-> None]
        ELSE [outcome |-> Ok,
              descriptor |->
                  [labelled EXCEPT !.fragment =
                      Some(downsampling_fragment(key, CHOOSE f \in found.fragment : TRUE))],
              key |-> Some(key)]

\* BloomDownsamplingSpecializer::specialize: the label, then the fragment
\* state or the error, then the entry point and the shader defs of the key.
BloomDownsamplingSpecializer_specialize(key, descriptor) ==
    LET labelled == downsampling_label(key, descriptor)
        found == fragment_mut(labelled)
    IN  IF found.outcome # Ok
        THEN [outcome |-> found.outcome, descriptor |-> labelled, key |-> None]
        ELSE [outcome |-> Ok,
              descriptor |->
                  [labelled EXCEPT !.fragment =
                      Some(downsampling_fragment(key, CHOOSE f \in found.fragment : TRUE))],
              key |-> Some(key)]

\* BloomUpsamplingSpecializer::specialize: the target built from the key is
\* set as target 0 of the fragment state, or the error is returned.
BloomUpsamplingSpecializer_specialize(key, descriptor) ==
    LET texture_format ==
            IF key.final_pipeline THEN "TEXTURE_FORMAT_HDR" ELSE "BLOOM_TEXTURE_FORMAT"
        color_blend ==
            IF key.composite_mode = "EnergyConserving"
            THEN [src_factor |-> "Constant", dst_factor |-> "OneMinusConstant",
                  operation |-> "Add"]
            ELSE [src_factor |-> "Constant", dst_factor |-> "One", operation |-> "Add"]
        target ==
            [format |-> texture_format,
             blend |-> Some([color |-> color_blend,
                             alpha |-> [src_factor |-> "Zero", dst_factor |-> "One",
                                        operation |-> "Add"]])]
        found == fragment_mut(descriptor)
    IN  IF found.outcome # Ok
        THEN [outcome |-> found.outcome, descriptor |-> descriptor, key |-> None]
        ELSE [outcome |-> Ok,
              descriptor |->
                  [descriptor EXCEPT !.fragment =
                      Some(set_target(CHOOSE f \in found.fragment : TRUE, 0, target))],
              key |-> Some(key)]

Specializer_specialize(specializer, key, descriptor) ==
    IF specializer = "BloomDownsamplingSpecializer"
    THEN BloomDownsamplingSpecializer_specialize(key, descriptor)
    ELSE BloomUpsamplingSpecializer_specialize(key, descriptor)

\* PipelineCache: the descriptors queued for compilation; the id of a
\* pipeline is its position.
queue_render_pipeline(pipeline_cache, descriptor) ==
    [pipeline_cache |-> Append(pipeline_cache, descriptor), id |-> Len(pipeline_cache)]

\* SpecializedCache::new(specializer, None, base_descriptor)
SpecializedCache_new(specializer, base_descriptor) ==
    [specializer |-> specializer,
     base_descriptor |-> base_descriptor,
     primary_cache |-> EmptyMap]

\* SpecializedCache::specialize on the cache p[which]: the id memoized for
\* the key; else the specializer runs on a copy of the base descriptor, its
\* error is returned, or the descriptor is queued and the id memoized.
SpecializedCache_specialize(p, which, key) ==
    LET cache == p[which]
    IN  IF key \in DOMAIN cache.primary_cache
        THEN [pipelines |-> p, outcome |-> Ok, id |-> Some(cache.primary_cache[key])]
        ELSE LET r == Specializer_specialize(cache.specializer, key, cache.base_descriptor)
                 q == queue_render_pipeline(p.pipeline_cache, r.descriptor)
             IN  IF r.outcome # Ok
                 THEN [pipelines |-> p, outcome |-> r.outcome, id |-> None]
                 ELSE [pipelines |->
                           [p EXCEPT !.pipeline_cache = q.pipeline_cache,
                                     ![which].primary_cache = Put(@, key, q.id)],
                       outcome |-> Ok,
                       id |-> Some(q.id)]

\* BloomDownsamplingPipeline::from_world, BloomUpsamplingPipeline::from_world
\* and an empty PipelineCache.
Pipelines_from_world ==
    [pipeline_cache |-> <<>>,
     downsampling |->
         SpecializedCache_new("BloomDownsamplingSpecializer", DownsamplingBaseDescriptor),
     upsampling |->
         SpecializedCache_new("BloomUpsamplingSpecializer", UpsamplingBaseDescriptor)]

\* views: the (Entity, &Bloom) items of the Query in its iteration order, an
\* entity being known by its position; *_ids: the components inserted.
World_default == [views |-> <<>>, downsampling_ids |-> EmptyMap, upsampling_ids |-> EmptyMap]

\* The second key of prepare_downsampling_pipeline built like the first.
downsampling_key_never_first(view, first_downsample) ==
    [prefilter |-> view.threshold > 0,
     first_downsample |-> FALSE,
     uniform_scale |-> view.scale = Vec2_ONE]

\* The keys prepare_downsampling_pipeline builds for a view.
downsampling_key(view, first_downsample) ==
    [prefilter |-> view.threshold > 0,
     first_downsample |-> first_downsample,
     uniform_scale |-> view.scale = Vec2_ONE]

\* The keys prepare_upsampling_pipeline builds for a view.
upsampling_key(view, final_pipeline) ==
    [composite_mode |-> view.composite_mode, final_pipeline |-> final_pipeline]

\* The loop of prepare_downsampling_pipeline from the view at `entity` on:
\* two specialize calls, each returning its error from the system, then the
\* component.  `attached` counts the views given a component.
RECURSIVE prepare_downsampling_views(_, _, _)
prepare_downsampling_views(p, w, entity) ==
    IF entity > Len(w.views)
    THEN [pipelines |-> p, world |-> w, outcome |-> Ok, attached |-> entity - 1]
    ELSE LET main == SpecializedCache_specialize(
                         p, "downsampling", downsampling_key(w.views[entity], FALSE))
             first == SpecializedCache_specialize(
                          main.pipelines, "downsampling",
                          downsampling_key(w.views[entity], TRUE))
             ids == [main |-> CHOOSE id \in main.id : TRUE,
                     first |-> CHOOSE id \in first.id : TRUE]
         IN  IF main.outcome # Ok
             THEN [pipelines |-> main.pipelines, world |-> w,
                   outcome |-> main.outcome, attached |-> entity - 1]
             ELSE IF first.outcome # Ok
                  THEN [pipelines |-> first.pipelines, world |-> w,
                        outcome |-> first.outcome, attached |-> entity - 1]
                  ELSE prepare_downsampling_views(
                           first.pipelines,
                           [w EXCEPT !.downsampling_ids = Put(@, entity, ids)],
                           entity + 1)

\* prepare_downsampling_pipeline
prepare_downsampling_pipeline(p, w) == prepare_downsampling_views(p, w, 1)

\* The loop of prepare_upsampling_pipeline from the view at `entity` on.
RECURSIVE prepare_upsampling_views(_, _, _)
prepare_upsampling_views(p, w, entity) ==
    IF entity > Len(w.views)
    THEN [pipelines |-> p, world |-> w, outcome |-> Ok, attached |-> entity - 1]
    ELSE LET main == SpecializedCache_specialize(
                         p, "upsampling", upsampling_key(w.views[entity], FALSE))
             final == SpecializedCache_specialize(
                          main.pipelines, "upsampling",
                          upsampling_key(w.views[entity], TRUE))
             ids == [id_main |-> CHOOSE id \in main.id : TRUE,
                     id_final |-> CHOOSE id \in final.id : TRUE]
         IN  IF main.outcome # Ok
             THEN [pipelines |-> main.pipelines, world |-> w,
                   outcome |-> main.outcome, attached |-> entity - 1]
             ELSE IF final.outcome # Ok
                  THEN [pipelines |-> final.pipelines, world |-> w,
                        outcome |-> final.outcome, attached |-> entity - 1]
                  ELSE prepare_upsampling_views(
                           final.pipelines,
                           [w EXCEPT !.upsampling_ids = Put(@, entity, ids)],
                           entity + 1)

\* prepare_upsampling_pipeline
prepare_upsampling_pipeline(p, w) == prepare_upsampling_views(p, w, 1)

\* --------------------------------------------------------- histories
\* frame.inserted: index -> the meta the frame's insert of that index asked
\*   for (the eager meta, or what the deferred initializer builds);
\* frame.deferred: the indices among them inserted as Deferred;
\* frame.clean: the frame began on a store with nothing current or queued
\*   and has inserted no index twice.
NewFrame(s) ==
    [inserted |-> EmptyMap,
     deferred |-> {},
     clean |-> (s.current_resources = EmptyMap /\ s.queued_resources = EmptyMap)]

Asked(resource) ==
    IF resource.tag = "Eager"
    THEN CHOOSE m \in resource.body : TRUE
    ELSE Call(CHOOSE d \in resource.thunk : TRUE)

TrackInsert(key, resource) ==
    frame' = IF frame.clean /\ key.index \notin DOMAIN frame.inserted
             THEN [frame EXCEPT !.inserted = Put(@, key.index, Asked(resource)),
                                !.deferred = IF resource.tag = "Deferred"
                                             THEN @ \cup {key.index} ELSE @]
             ELSE [frame EXCEPT !.inserted = EmptyMap, !.deferred = {},
                                !.clean = FALSE]

\* declared.added: the ids of the handles passed as &h or &mut h, as they
\*   stood when passed, to the calls that built `deps` since its `of`;
\* declared.written[n]: the generations handle n stood at, in call order, each
\*   time it was passed as &mut to one of those calls.
NothingDeclared == [added |-> {}, written |-> [n \in HandleNames |-> <<>>]]

\* A call given the dependencies `given` (each handle variable is borrowed
\* mutably at most once in them, so every one is passed as it stands before
\* the call) adds to the history `base`.
TrackDeclared(base, given) ==
    declared' =
        [added |-> base.added \cup
                      {handles[arg.name].id : arg \in {x \in given : x.kind \in {"&", "&mut"}}},
         written |-> [n \in HandleNames |->
                         IF Mut(n) \in given
                         THEN Append(base.written[n], handles[n].id.generation)
                         ELSE base.written[n]]]

\* phase: "Idle" after a reset, "Building" once the frame has declared
\*   something, "Executing" once init_deferred has realized the queue.
AfterDeclaration(p) == IF p = "Idle" THEN "Building" ELSE p

NoArgs == <<>>
Range(seq) == {seq[k] : k \in DOMAIN seq}
Returned(op, args, outcome, value) ==
    [op |-> op, args |-> args, outcome |-> outcome, value |-> value]

\* ---------------------------------------------------------------- Init
Init ==
    /\ store = SimpleResourceStore_default
    /\ handles = [n \in HandleNames |->
                    [id |-> [index |-> IF n = "a" THEN 0 ELSE MaxIndex, generation |-> 0]]]
    /\ deps = RenderDependencies_default
    /\ frame = NewFrame(SimpleResourceStore_default)
    /\ marks = EmptyMap
    /\ last_marked = EmptyMap
    /\ declared = NothingDeclared
    /\ graph = RenderGraph_default
    /\ phase = "Idle"
    /\ pipelines = Pipelines_from_world
    /\ world = World_default
    /\ result = Returned("default", NoArgs, Ok, None)

\* ------------------------------------------------- calls on the store
Insert(key, resource) ==
    /\ store' = insert(store, key, resource)
    /\ result' = Returned("insert", <<key.index>>, Ok, None)
    /\ UNCHANGED <<handles, deps>>

InitDeferred ==
    /\ store' = init_deferred(store)
    /\ result' = Returned("init_deferred", NoArgs, Ok, None)
    /\ UNCHANGED <<handles, deps>>

GetData(key) ==
    /\ result' = Returned("get_data", <<key.index>>, Ok, get_data(store, key))
    /\ UNCHANGED <<store, handles, deps>>

Reset ==
    /\ \E promoted \in PromotedMaps(store) : store' = reset(store, promoted)
    /\ result' = Returned("reset", NoArgs, Ok, None)
    /\ UNCHANGED <<handles, deps>>

MarkRetain(key, label) ==
    LET r == RetainedRenderStore_mark_retain(store, key, label)
    IN  /\ store' = r.store
        /\ result' = Returned("mark_retain", <<key, label>>, r.outcome, None)
        /\ UNCHANGED <<handles, deps>>

GetRetained(label) ==
    LET r == RetainedRenderStore_get_retained(store, label)
    IN  /\ result' = Returned("get_retained", <<label>>, r.outcome, r.value)
        /\ UNCHANGED <<store, handles, deps>>

\* ------------------------------------- calls on a dependency set
\* The argument tuples a caller can write: at most MaxDeps elements, and the
\* borrow checker admits &mut h only when h is borrowed nowhere else in the
\* tuple.
Borrowable(args) ==
    \A i \in DOMAIN args :
        args[i].kind = "&mut" =>
            \A j \in DOMAIN args \ {i} :
                args[j].kind = "&bind_group" \/ args[j].name # args[i].name

TuplesUpTo(len) ==
    {args \in UNION {[1..n -> DependencyArgs] : n \in 0..len} : Borrowable(args)}

DependencyTuples == TuplesUpTo(MaxDeps)

InGenerations(hs) == \A n \in HandleNames : hs[n].id.generation \in Generations

Of(args) ==
    LET r == of(handles, args)
    IN  /\ InGenerations(r.handles)
        /\ deps' = r.deps
        /\ handles' = r.handles
        /\ result' = Returned("of", Range(args), Ok, None)
        /\ UNCHANGED store

Add(arg) ==
    LET r == add(deps, handles, arg)
    IN  /\ InGenerations(r.handles)
        /\ deps' = r.deps
        /\ handles' = r.handles
        /\ result' = Returned("add", {arg}, Ok, None)
        /\ UNCHANGED store

AddMany(args) ==
    LET r == add_many(deps, handles, args)
    IN  /\ InGenerations(r.handles)
        /\ deps' = r.deps
        /\ handles' = r.handles
        /\ result' = Returned("add_many", Range(args), Ok, None)
        /\ UNCHANGED store

\* RenderDependencies::of(&mut h) with no cap on the generation: where
\* `self.id.generation += 1` overflows, the call panics before a set is
\* returned (overflow checks on) or returns with the generation wrapped.
OfMut(name) ==
    \/ /\ handles[name].id.generation = U16Max
       /\ result' = Returned("of", {Mut(name)}, OverflowPanic, None)
       /\ UNCHANGED <<store, handles, deps>>
    \/ LET r == of(handles, <<Mut(name)>>)
       IN  /\ deps' = r.deps
           /\ handles' = r.handles
           /\ result' = Returned("of", {Mut(name)}, Ok, None)
           /\ UNCHANGED store

\* ------------------------------------------------ calls on a NodeContext
NodeGet(resource) ==
    LET r == NodeContext_get(deps, store, resource)
    IN  /\ result' = Returned("NodeContext::get", <<resource.id.index>>, r.outcome, r.value)
        /\ UNCHANGED <<store, handles, deps>>

NodeGetBindGroup(bind_group) ==
    LET r == NodeContext_get_bind_group(deps, bind_group)
    IN  /\ result' = Returned("NodeContext::get_bind_group", <<bind_group>>, r.outcome, r.value)
        /\ UNCHANGED <<store, handles, deps>>

\* ------------------------------------------------- calls on the graph
AddNode ==
    LET r == add_node(graph, deps)
    IN  /\ graph' = r.graph
        /\ result' = Returned("add_node", NoArgs, r.outcome, None)
        /\ UNCHANGED <<store, handles, deps>>

NewResource(kind, resource) ==
    \E r \in new_resource(graph, kind, resource) :
        /\ graph' = r.graph
        /\ result' = Returned("new_resource", <<kind>>, r.outcome, r.handle)
        /\ UNCHANGED <<store, handles, deps>>

\* SimpleResourceStore::insert on the store the graph owns for `kind`.
StoreInsert(kind, key, resource) ==
    /\ graph' = [graph EXCEPT ![kind] = insert(@, key, resource)]
    /\ result' = Returned("insert", <<kind, key.index>>, Ok, None)
    /\ UNCHANGED <<store, handles, deps>>

\* SimpleResourceStore::get_data on the store the graph owns for `kind`.
StoreGetData(kind, key) ==
    /\ result' = Returned("get_data", <<kind, key.index>>, Ok, get_data(graph[kind], key))
    /\ UNCHANGED <<graph, store, handles, deps>>

GetDescriptorOf(kind, resource) ==
    LET r == get_descriptor_of(graph, kind, resource)
    IN  /\ result' = Returned("get_descriptor_of", <<kind, resource.id.index>>,
                               r.outcome, r.value)
        /\ UNCHANGED <<graph, store, handles, deps>>

DescriptorOf(kind, resource) ==
    LET r == descriptor_of(graph, kind, resource)
    IN  /\ result' = Returned("descriptor_of", <<kind, resource.id.index>>,
                               r.outcome, r.value)
        /\ UNCHANGED <<graph, store, handles, deps>>

GraphReset ==
    /\ graph' = RenderGraph_reset(graph)
    /\ result' = Returned("RenderGraph::reset", NoArgs, Ok, None)
    /\ UNCHANGED <<store, handles, deps>>

RunRenderGraph ==
    /\ graph' = run_render_graph(graph)
    /\ result' = Returned("run_render_graph", NoArgs, Ok, None)
    /\ UNCHANGED <<store, handles, deps>>

\* ------------------------------------------- the bloom specializer
\* BloomDownsamplingSpecializer::specialize on a copy of the base descriptor
\* the downsampling pipeline was built with: what it returns and what it
\* has made of the copy.
DownsamplingSpecialize(key) ==
    LET r == BloomDownsamplingSpecializer_specialize(
                 key, pipelines.downsampling.base_descriptor)
    IN  /\ result' = Returned("BloomDownsamplingSpecializer::specialize", <<key>>,
                               r.outcome, Some([descriptor |-> r.descriptor, key |-> r.key]))
        /\ UNCHANGED <<pipelines, world, store, handles, deps>>

\* ------------------------------------- the bloom prepare systems
PrepareDownsampling ==
    LET r == prepare_downsampling_pipeline(pipelines, world)
    IN  /\ pipelines' = r.pipelines
        /\ world' = r.world
        /\ result' = Returned("prepare_downsampling_pipeline", NoArgs,
                              r.outcome, Some(r.attached))
        /\ UNCHANGED <<store, handles, deps>>

PrepareUpsampling ==
    LET r == prepare_upsampling_pipeline(pipelines, world)
    IN  /\ pipelines' = r.pipelines
        /\ world' = r.world
        /\ result' = Returned("prepare_upsampling_pipeline", NoArgs,
                              r.outcome, Some(r.attached))
        /\ UNCHANGED <<store, handles, deps>>

\* ------------------------------------------------------ specifications
\* One store on its own: insert, realize, look up, reset.
Next ==
    \/ \E key \in RenderResourceId, resource \in RenderResourceInit :
          Insert(key, resource) /\ TrackInsert(key, resource) /\ UNCHANGED <<marks, beyond>>
    \/ InitDeferred /\ UNCHANGED <<frame, marks, beyond>>
    \/ \E key \in RenderResourceId : GetData(key) /\ UNCHANGED <<frame, marks, beyond>>
    \/ Reset /\ frame' = NewFrame(store') /\ UNCHANGED <<marks, beyond>>

Spec == Init /\ [][Next]_vars

\* Retention across the frame boundary: eager inserts, marks, reset, lookup
\* by label.
RetainNext ==
    \/ \E key \in RenderResourceId, meta \in RenderResourceMeta :
          Insert(key, Eager(meta)) /\ UNCHANGED <<frame, marks, beyond>>
    \/ \E key \in Indices, label \in Labels :
          /\ MarkRetain(key, label)
          /\ marks' = Put(marks, key, label)
          /\ last_marked' = Put(last_marked, label, key)
          /\ UNCHANGED <<frame, declared, graph, phase, bloom>>
    \/ /\ Reset
       /\ marks' = EmptyMap
       /\ last_marked' = EmptyMap
       /\ UNCHANGED <<frame, declared, graph, phase, bloom>>
    \/ \E label \in Labels : GetRetained(label) /\ UNCHANGED <<frame, marks, beyond>>

RetainSpec == Init /\ [][RetainNext]_vars

\* Building dependency sets from handle variables.
DepNext ==
    \/ \E args \in DependencyTuples :
          /\ Of(args)
          /\ TrackDeclared(NothingDeclared, Range(args))
          /\ UNCHANGED <<frame, marks, last_marked, graph, phase, bloom>>
    \/ \E arg \in DependencyArgs :
          /\ Add(arg)
          /\ TrackDeclared(declared, {arg})
          /\ UNCHANGED <<frame, marks, last_marked, graph, phase, bloom>>
    \/ \E args \in DependencyTuples :
          /\ AddMany(args)
          /\ TrackDeclared(declared, Range(args))
          /\ UNCHANGED <<frame, marks, last_marked, graph, phase, bloom>>

DepSpec == Init /\ [][DepNext]_vars

\* A node running against a store that holds resources of the author's
\* handles, with the dependency set it was given.
NodeNext ==
    \/ \E n \in HandleNames, meta \in RenderResourceMeta :
          Insert(handles[n].id, Eager(meta)) /\ UNCHANGED <<frame, marks, beyond>>
    \/ \E args \in TuplesUpTo(MaxNodeDeps) :
          /\ Of(args)
          /\ \A n \in HandleNames : handles'[n].id.generation <= MaxNodeGen
          /\ UNCHANGED <<frame, marks, beyond>>
    \/ \E resource \in RenderHandle : NodeGet(resource) /\ UNCHANGED <<frame, marks, beyond>>

NodeSpec == Init /\ [][NodeNext]_vars

\* The graph between frames: resources of both kinds declared and stored,
\* looked up, and the reset that run_render_graph starts every frame with.
GraphNext ==
    \/ \E kind \in Kinds, f \in 1..MaxData :
          NewResource(kind, f) /\ UNCHANGED <<frame, marks, last_marked, declared, phase, bloom>>
    \/ \E kind \in Kinds, index \in Indices, f \in 1..MaxData :
          /\ StoreInsert(kind, [index |-> index, generation |-> 0], into_render_resource(f))
          /\ UNCHANGED <<frame, marks, last_marked, declared, phase, bloom>>
    \/ \E kind \in Kinds, index \in Indices :
          /\ StoreGetData(kind, [index |-> index, generation |-> 0])
          /\ UNCHANGED <<frame, marks, last_marked, declared, phase, bloom>>
    \/ \E kind \in Kinds, index \in Indices :
          /\ GetDescriptorOf(kind, [id |-> [index |-> index, generation |-> 0]])
          /\ UNCHANGED <<frame, marks, last_marked, declared, phase, bloom>>
    \/ \E kind \in Kinds, index \in Indices :
          /\ DescriptorOf(kind, [id |-> [index |-> index, generation |-> 0]])
          /\ UNCHANGED <<frame, marks, last_marked, declared, phase, bloom>>
    \/ GraphReset /\ UNCHANGED <<frame, marks, last_marked, declared, phase, bloom>>
    \/ RunRenderGraph /\ UNCHANGED <<frame, marks, last_marked, declared, phase, bloom>>

GraphSpec == Init /\ [][GraphNext]_vars

\* One frame after another of a graph with one store: declarations, the
\* realization of the queue, nodes resolving their resources, the reset.  A
\* dependency set is a value built apart from the graph; add_node hands it
\* to the graph.
PhaseNext ==
    \/ \E n \in HandleNames, resource \in RenderResourceInit :
          /\ Insert(handles[n].id, resource)
          /\ phase' = AfterDeclaration(phase)
          /\ UNCHANGED <<frame, marks, last_marked, declared, graph, bloom>>
    \/ \E kind \in Kinds, f \in 1..MaxData :
          /\ NewResource(kind, f)
          /\ phase' = AfterDeclaration(phase)
          /\ UNCHANGED <<frame, marks, last_marked, declared, bloom>>
    \/ \E n \in HandleNames, label \in Labels :
          /\ MarkRetain(handles[n].id.index, label)
          /\ phase' = AfterDeclaration(phase)
          /\ UNCHANGED <<frame, marks, last_marked, declared, graph, bloom>>
    \/ \E args \in TuplesUpTo(MaxNodeDeps) :
          /\ Of(args)
          /\ \A n \in HandleNames : handles'[n].id.generation <= MaxNodeGen
          /\ UNCHANGED <<frame, marks, last_marked, declared, graph, phase, bloom>>
    \/ /\ AddNode
       /\ phase' = AfterDeclaration(phase)
       /\ UNCHANGED <<frame, marks, last_marked, declared, bloom>>
    \/ /\ InitDeferred
       /\ phase' = "Executing"
       /\ UNCHANGED <<frame, marks, last_marked, declared, graph, bloom>>
    \/ \E n \in HandleNames :
          /\ NodeGet(handles[n])
          /\ UNCHANGED <<frame, marks, last_marked, declared, graph, phase, bloom>>
    \/ \E bind_group \in RenderBindGroup :
          /\ NodeGetBindGroup(bind_group)
          /\ UNCHANGED <<frame, marks, last_marked, declared, graph, phase, bloom>>
    \/ /\ Reset
       /\ phase' = "Idle"
       /\ UNCHANGED <<frame, marks, last_marked, declared, graph, bloom>>

PhaseSpec == Init /\ [][PhaseNext]_vars

\* The two u16 counters over a long run: resources declared and the graph
\* reset frame after frame, and one handle declared as written again and
\* again.
CounterNext ==
    \/ \E kind \in Kinds, f \in 1..MaxData :
          NewResource(kind, f) /\ UNCHANGED <<frame, marks, last_marked, declared, phase, bloom>>
    \/ GraphReset /\ UNCHANGED <<frame, marks, last_marked, declared, phase, bloom>>
    \/ OfMut("a") /\ UNCHANGED <<frame, marks, last_marked, declared, graph, phase, bloom>>

CounterSpec == Init /\ [][CounterNext]_vars

\* The bloom prepare systems, run frame after frame over the views of a
\* world.  Each SpecializedCache is built over the base descriptor of
\* from_world or over one without fragment state; the views are any list of
\* at most MaxViews Bloom settings.
WithoutFragment(descriptor) == [descriptor EXCEPT !.fragment = None]

ViewLists == UNION {[1..n -> Bloom] : n \in 0..MaxViews}

PipeInit ==
    /\ store = SimpleResourceStore_default
    /\ handles = [n \in HandleNames |->
                    [id |-> [index |-> IF n = "a" THEN 0 ELSE MaxIndex, generation |-> 0]]]
    /\ deps = RenderDependencies_default
    /\ frame = NewFrame(SimpleResourceStore_default)
    /\ marks = EmptyMap
    /\ last_marked = EmptyMap
    /\ declared = NothingDeclared
    /\ graph = RenderGraph_default
    /\ phase = "Idle"
    /\ \E d \in {DownsamplingBaseDescriptor, WithoutFragment(DownsamplingBaseDescriptor)},
          u \in {UpsamplingBaseDescriptor, WithoutFragment(UpsamplingBaseDescriptor)} :
          pipelines =
              [pipeline_cache |-> <<>>,
               downsampling |-> SpecializedCache_new("BloomDownsamplingSpecializer", d),
               upsampling |-> SpecializedCache_new("BloomUpsamplingSpecializer", u)]
    /\ \E views \in ViewLists : world = [World_default EXCEPT !.views = views]
    /\ result = Returned("default", NoArgs, Ok, None)

PipeNext ==
    \/ /\ PrepareDownsampling
       /\ UNCHANGED <<frame, marks, last_marked, declared, graph, phase>>
    \/ /\ PrepareUpsampling
       /\ UNCHANGED <<frame, marks, last_marked, declared, graph, phase>>
    \/ \E key \in BloomDownsamplingKey :
          /\ DownsamplingSpecialize(key)
          /\ UNCHANGED <<frame, marks, last_marked, declared, graph, phase>>

PipeSpec == PipeInit /\ [][PipeNext]_vars

\* ============================================================== claims

\* The declaration calls; result.args is then the set of dependencies the
\* call was given.
DeclarationOps == {"of", "add", "add_many"}

\* C1 (Spec): in a frame that began on an empty store and inserted pairwise
\* distinct indices, once init_deferred has left nothing queued, get_data on
\* every inserted index returns exactly the meta that was inserted eagerly or
\* that the index's deferred initializer builds, and on every index that was
\* not inserted it returns nothing.
C1_InsertRealizeGet ==
    (frame.clean /\ store.queued_resources = EmptyMap) =>
        \A key \in RenderResourceId :
            get_data(store, key) = Lookup(frame.inserted, key.index)

\* init_deferred has just run in such a frame, which had inserted one index
\* eagerly and another one deferred.
C1_Witness ==
    /\ result.op = "init_deferred"
    /\ frame.clean
    /\ frame.deferred # {}
    /\ DOMAIN frame.inserted \ frame.deferred # {}
    /\ store.queued_resources = EmptyMap

\* C2 (DepSpec): a declaration that passes &mut h leaves contains_resource(h)
\* true for h as it stands after the declaration, with h.generation exactly
\* one greater than before and h.index unchanged.
C2_WriteDeclaration ==
    [][\A n \in HandleNames :
          (result'.op \in DeclarationOps /\ Mut(n) \in result'.args) =>
              /\ contains_resource(deps', handles'[n])
              /\ handles'[n].id.generation = handles[n].id.generation + 1
              /\ handles'[n].id.index = handles[n].id.index]_vars

\* C3 (DepSpec): a declaration that passes &h leaves contains_resource(h)
\* true on the resulting set and h.index and h.generation as they were.
C3_ReadDeclaration ==
    [][\A n \in HandleNames :
          (result'.op \in DeclarationOps /\ Ref(n) \in result'.args) =>
              /\ contains_resource(deps', handles'[n])
              /\ handles'[n].id.index = handles[n].id.index
              /\ handles'[n].id.generation = handles[n].id.generation]_vars

\* A declaration call that was given &h has just returned, in a tuple that
\* also held a &mut of the other handle.
C3_Witness ==
    /\ result.op \in DeclarationOps
    /\ \E n, m \in HandleNames :
          /\ Ref(n) \in result.args
          /\ Mut(m) \in result.args
          /\ handles[n].id \in deps.reads

\* C4 (NodeSpec): NodeContext::get on a handle whose id is in neither reads
\* nor writes of the node's dependency set ends in the access-control panic,
\* whatever the store holds at the handle's index.
C4_UndeclaredGetPanics ==
    [][\A resource \in RenderHandle :
          (NodeGet(resource) /\ resource.id \notin deps.reads \cup deps.writes) =>
              result'.outcome = AccessPanic]_vars

\* NodeContext::get has just ended in the access-control panic on a handle
\* whose index holds a realized resource in the store.
C4_Witness ==
    /\ result.op = "NodeContext::get"
    /\ result.outcome = AccessPanic
    /\ result.args[1] \in DOMAIN store.current_resources

\* C5 (NodeSpec): NodeContext::get on a handle whose id is in reads or writes
\* and whose index holds a realized resource returns that resource.
C5_DeclaredGetReturns ==
    [][\A resource \in RenderHandle :
          (/\ NodeGet(resource)
           /\ resource.id \in deps.reads \cup deps.writes
           /\ resource.id.index \in DOMAIN store.current_resources) =>
              /\ result'.outcome = Ok
              /\ result'.value =
                     from_data(store.current_resources[resource.id.index].resource)]_vars

\* C6 (Spec): in a frame that began on an empty store, an insert for an
\* index the frame has already inserted panics and leaves the store as it
\* was.
C6_SecondInsertPanics ==
    [][\A key \in RenderResourceId, resource \in RenderResourceInit :
          (/\ frame.clean
           /\ key.index \in DOMAIN frame.inserted
           /\ Insert(key, resource)) =>
              /\ result'.outcome # Ok
              /\ store' = store]_vars

\* C7 (Spec): no index is a key of both current_resources and
\* queued_resources.
C7_CurrentQueuedDisjoint ==
    DOMAIN store.current_resources \cap DOMAIN store.queued_resources = {}

\* C8 (Spec): right after reset, current_resources, queued_resources and
\* resources_to_save are all empty.
C8_ResetEmptiesStore ==
    result.op = "reset" =>
        /\ store.current_resources = EmptyMap
        /\ store.queued_resources = EmptyMap
        /\ store.resources_to_save = EmptyMap

\* C9 (RetainSpec): reset carries the current meta of every index the frame
\* marked with mark_retain (alone under its label) into last_frame_resources
\* under that label, where the next frame's get_retained finds it, and
\* carries no label the frame did not mark.
C9_RetentionRoundTrip ==
    [][result'.op = "reset" =>
          /\ \A i \in DOMAIN marks \cap DOMAIN store.current_resources :
                (\A j \in DOMAIN marks : marks[j] = marks[i] => j = i) =>
                    Lookup(store'.last_frame_resources, marks[i])
                        = Some(store.current_resources[i])
          /\ DOMAIN store'.last_frame_resources \subseteq Range(marks)]_vars

\* C10 (RetainSpec): the labels last_frame_resources holds after a reset are
\* exactly the labels marked during the frame that reset ends, for indices
\* current at the reset; a label of an earlier frame that was not marked
\* again is absent.
C10_OneFrameWindow ==
    [][result'.op = "reset" =>
          DOMAIN store'.last_frame_resources
              = {marks[i] : i \in DOMAIN marks \cap DOMAIN store.current_resources}]_vars

\* C11 (GraphSpec): right after the graph's reset (RenderGraph::reset, or
\* run_render_graph which begins with it) no index resolves in any store the
\* graph owns: no save-mark exists, so every resource of the frame that
\* ended is one that was not retained.
C11_GraphResetDiscards ==
    result.op \in {"RenderGraph::reset", "run_render_graph"} =>
        \A kind \in Kinds, key \in RenderResourceId :
            get_data(graph[kind], key) = None

\* C18 (GraphSpec): every new_resource call returns a handle of generation 0
\* whose index is the allocator's value before the call, and leaves the
\* allocator above it; no step, a graph reset included, takes the allocator
\* back, so no index is handed out twice.
C18_NewResourceIndices ==
    [][/\ graph'.next_id >= graph.next_id
       /\ result'.op = "new_resource" =>
              /\ result'.outcome = Ok
              /\ result'.value =
                     Some([id |-> [index |-> graph.next_id, generation |-> 0]])
              /\ graph'.next_id > graph.next_id]_vars

\* The operations that declare, and those that resolve.
BuildingOps == {"insert", "new_resource", "mark_retain", "add_node"}
ExecutingOps == {"NodeContext::get", "NodeContext::get_bind_group"}

\* C12 (PhaseSpec): a declaration (insert, new_resource, mark_retain,
\* add_node) called while the frame is Executing, that is after init_deferred
\* and before reset, fails and leaves the store and the graph as they were;
\* a resolution (NodeContext::get, get_bind_group) called before
\* init_deferred has run in the frame fails.
C12_PhaseDiscipline ==
    [][/\ (phase = "Executing" /\ result'.op \in BuildingOps) =>
              /\ result'.outcome # Ok
              /\ store' = store
              /\ graph' = graph
       /\ (phase \in {"Idle", "Building"} /\ result'.op \in ExecutingOps) =>
              result'.outcome # Ok]_vars

\* C13 (Spec): get_data on an index whose initializer is still in
\* queued_resources returns nothing; get_data on an index that is neither
\* current nor queued, as every index never inserted is, returns nothing;
\* and once init_deferred has run, get_data on every index that was queued
\* returns the meta its initializer builds.
C13_QueuedGetNone ==
    [][/\ result'.op = "get_data" =>
              LET i == result'.args[1]
              IN  /\ i \in DOMAIN store.queued_resources => result'.value = None
                  /\ i \notin DOMAIN store.current_resources
                                  \cup DOMAIN store.queued_resources =>
                         result'.value = None
       /\ result'.op = "init_deferred" =>
              \A key \in RenderResourceId :
                  key.index \in DOMAIN store.queued_resources =>
                      get_data(store', key)
                          = Some(Call(store.queued_resources[key.index]))]_vars

\* C17 (Spec): init_deferred leaves queued_resources empty; every index
\* that was queued is then a key of current_resources and holds what one
\* call of its initializer builds; every index that was current and not
\* queued keeps its meta; no other index becomes current.
C17_InitDeferredEffect ==
    [][result'.op = "init_deferred" =>
          /\ store'.queued_resources = EmptyMap
          /\ DOMAIN store'.current_resources =
                 DOMAIN store.current_resources \cup DOMAIN store.queued_resources
          /\ \A i \in DOMAIN store.queued_resources :
                 store'.current_resources[i] = Call(store.queued_resources[i])
          /\ \A i \in DOMAIN store.current_resources \ DOMAIN store.queued_resources :
                 store'.current_resources[i] = store.current_resources[i]
          /\ store'.last_frame_resources = store.last_frame_resources
          /\ store'.resources_to_save = store.resources_to_save]_vars

\* init_deferred has just realized a queued index next to an index that was
\* inserted eagerly, and both are current.
C17_Witness ==
    /\ result.op = "init_deferred"
    /\ frame.clean
    /\ \E d \in frame.deferred, e \in DOMAIN frame.inserted \ frame.deferred :
          /\ {d, e} \subseteq DOMAIN store.current_resources
          /\ store.current_resources[e] = frame.inserted[e]

\* C14 (RetainSpec): when the frame marked a label for one index and later
\* for a different one, both current at the reset, then after the reset
\* last_frame_resources holds under that label the meta of the index marked
\* last, whichever order the store's maps are drained in.
C14_LaterMarkWins ==
    [][result'.op = "reset" =>
          \A l \in DOMAIN last_marked :
              (/\ last_marked[l] \in DOMAIN store.current_resources
               /\ \E j \in DOMAIN marks \cap DOMAIN store.current_resources :
                      j # last_marked[l] /\ marks[j] = l) =>
                  Lookup(store'.last_frame_resources, l)
                      = Some(store.current_resources[last_marked[l]])]_vars

\* C19 (DepSpec): when handle h, standing at generation g, has been passed
\* as &mut k >= 1 times to the calls that built the dependency set, the set's
\* writes hold the k ids (h.index, g), ..., (h.index, g + k - 1), and no other
\* id of that index, and h stands at generation g + k.
C19_WriteDeclarationsCount ==
    \A n \in HandleNames :
        LET k == Len(declared.written[n])
            index == handles[n].id.index
        IN  k >= 1 =>
                LET g == declared.written[n][1]
                IN  /\ handles[n].id.generation = g + k
                    /\ \A j \in 0..(k - 1) :
                           [index |-> index, generation |-> g + j] \in deps.writes
                    /\ Cardinality({id \in deps.writes : id.index = index}) = k

\* An add or add_many has just declared a handle read-write for at least the
\* second time into the same set.
C19_Witness ==
    \E n \in HandleNames :
        /\ Len(declared.written[n]) >= 2
        /\ result.op \in {"add", "add_many"}
        /\ Mut(n) \in result.args

\* C20 (DepSpec): for the set built by any sequence of of / add / add_many,
\* contains_resource(h) holds exactly when an id equal to h's id in index and
\* generation was passed as a read or as a write; neither an id of the same
\* index and another generation nor a bind group makes h contained.
C20_ExactIdMembership ==
    \A h \in RenderHandle :
        contains_resource(deps, h) <=> h.id \in declared.added

\* The set holds a bind group and an id of a handle's index, and the handle,
\* standing at another generation, is not contained.
C20_Witness ==
    /\ deps.bind_groups # {}
    /\ \E n \in HandleNames :
          /\ ~contains_resource(deps, handles[n])
          /\ \E id \in deps.reads \cup deps.writes : id.index = handles[n].id.index

\* Two views whose Bloom gives the downsampling keys the same prefilter and
\* uniform_scale flags.
SameDownsamplingFlags(v1, v2) ==
    /\ (v1.threshold > 0) = (v2.threshold > 0)
    /\ (v1.scale = Vec2_ONE) = (v2.scale = Vec2_ONE)

\* C15 (PipeSpec): among the pipeline ids prepare_downsampling_pipeline has
\* attached to the views, two are the same id exactly when they were
\* specialized from equal keys: the same one of main / first, for views with
\* equal prefilter and uniform_scale flags.  So equal keys are answered from
\* the memo, and the main and first ids of a view, whose keys differ in
\* first_downsample alone, differ.
C15_MemoizedByKey ==
    \A e1, e2 \in DOMAIN world.downsampling_ids :
        \A f1, f2 \in {"main", "first"} :
            (world.downsampling_ids[e1][f1] = world.downsampling_ids[e2][f2])
                <=> (f1 = f2 /\ SameDownsamplingFlags(world.views[e1], world.views[e2]))

\* prepare_downsampling_pipeline has attached ids to two views with equal
\* flags and the prepare systems have run again since.
C15_Witness ==
    /\ result.op = "prepare_downsampling_pipeline"
    /\ world.upsampling_ids # EmptyMap
    /\ \E e1, e2 \in DOMAIN world.downsampling_ids :
          /\ e1 # e2
          /\ SameDownsamplingFlags(world.views[e1], world.views[e2])

PrepareOps == {"prepare_downsampling_pipeline", "prepare_upsampling_pipeline"}

\* C16 (PipeSpec): a prepare system run over at least one view with a cache
\* whose descriptor has no fragment state returns the specializer's error
\* and does not panic; a prepare system that does not return Ok returns that
\* error and leaves the components of the view it was at and of every later
\* view as they were.
C16_ErrorPropagates ==
    [][/\ (/\ result'.op = "prepare_downsampling_pipeline"
           /\ pipelines.downsampling.base_descriptor.fragment = None
           /\ world.views # <<>>) => result'.outcome = NoFragmentState
       /\ (/\ result'.op = "prepare_upsampling_pipeline"
           /\ pipelines.upsampling.base_descriptor.fragment = None
           /\ world.views # <<>>) => result'.outcome = NoFragmentState
       /\ (result'.op \in PrepareOps /\ result'.outcome # Ok) =>
              /\ result'.outcome = NoFragmentState
              /\ \A e \in 1..Len(world.views), attached \in result'.value :
                     e > attached =>
                         /\ Lookup(world'.downsampling_ids, e)
                                = Lookup(world.downsampling_ids, e)
                         /\ Lookup(world'.upsampling_ids, e)
                                = Lookup(world.upsampling_ids, e)]_vars

\* prepare_downsampling_pipeline has just returned the error over two views,
\* none of which has downsampling ids.
C16_Witness ==
    /\ result.op = "prepare_downsampling_pipeline"
    /\ result.outcome = NoFragmentState
    /\ Len(world.views) >= 2
    /\ world.downsampling_ids = EmptyMap

\* C21 (NodeSpec): resolution goes by the index alone.  For every handle that
\* passes the dependency check and whose index holds a realized resource,
\* get_data answers every id of that index, whatever its generation, with the
\* slot's current meta, and NodeContext::get returns the slot's current
\* resource; this covers a stale copy of a handle that a write declaration
\* has since moved to a later generation.
C21_ResolutionByIndex ==
    [][\A resource \in RenderHandle :
          (/\ NodeGet(resource)
           /\ contains_resource(deps, resource)
           /\ resource.id.index \in DOMAIN store.current_resources) =>
              \A key \in RenderResourceId :
                  key.index = resource.id.index =>
                      /\ get_data(store, key)
                             = Some(store.current_resources[resource.id.index])
                      /\ result'.outcome = Ok
                      /\ result'.value =
                             UNION {from_data(meta.resource) :
                                        meta \in get_data(store, key)}]_vars

\* C22 (GraphSpec): every meta a store of the graph holds for an eagerly
\* created resource carries a descriptor, and for a handle whose index holds
\* such a resource get_descriptor_of returns a descriptor and descriptor_of
\* returns without a panic.
C22_EagerDescriptorPopulated ==
    [][/\ \A kind \in Kinds :
              \A index \in DOMAIN graph'[kind].current_resources :
                  graph'[kind].current_resources[index].descriptor # None
       /\ (/\ result'.op \in {"get_descriptor_of", "descriptor_of"}
           /\ result'.args[2] \in DOMAIN graph[result'.args[1]].current_resources) =>
              /\ result'.outcome = Ok
              /\ result'.value # None]_vars

\* C23 (PipeSpec): BloomDownsamplingSpecializer::specialize on the base
\* descriptor of from_world returns Ok with the key it was given, leaves a
\* descriptor whose entry point is downsample_first exactly for a
\* first_downsample key (downsample otherwise) and whose shader defs hold
\* FIRST_DOWNSAMPLE, USE_THRESHOLD and UNIFORM_SCALE exactly for the flags
\* first_downsample, prefilter and uniform_scale, and that descriptor is the
\* one the same key always gives and differs from the one any other key gives.
C23_SpecializeInjective ==
    (/\ result.op = "BloomDownsamplingSpecializer::specialize"
     /\ pipelines.downsampling.base_descriptor = DownsamplingBaseDescriptor) =>
        \A out \in result.value :
            LET key == result.args[1]
                defs == UNION {Range(fragment.shader_defs) :
                                  fragment \in out.descriptor.fragment}
            IN  /\ result.outcome = Ok
                /\ out.key = Some(key)
                /\ out.descriptor.fragment # None
                /\ \A fragment \in out.descriptor.fragment :
                       fragment.entry_point =
                           Some(IF key.first_downsample
                                THEN "downsample_first" ELSE "downsample")
                /\ ("FIRST_DOWNSAMPLE" \in defs) <=> key.first_downsample
                /\ ("USE_THRESHOLD" \in defs) <=> key.prefilter
                /\ ("UNIFORM_SCALE" \in defs) <=> key.uniform_scale
                /\ \A other \in BloomDownsamplingKey :
                       (BloomDownsamplingSpecializer_specialize(
                            other, DownsamplingBaseDescriptor).descriptor
                          = out.descriptor) <=> (other = key)

\* The specializer has just returned Ok on the base descriptor of from_world
\* for the key with every flag set.
C23_Witness ==
    /\ result.op = "BloomDownsamplingSpecializer::specialize"
    /\ result.outcome = Ok
    /\ pipelines.downsampling.base_descriptor = DownsamplingBaseDescriptor
    /\ result.args[1] =
           [prefilter |-> TRUE, first_downsample |-> TRUE, uniform_scale |-> TRUE]

\* C24 (CounterSpec): the u16 counters never wrap.  No step takes the
\* graph's next_id or a handle's generation to a lower value (a counter
\* that only advances is lowered by wrap-around alone), both stay at most
\* 65535, and the graph's reset leaves next_id at least where it was.
C24_CountersNeverWrap ==
    [][/\ graph'.next_id >= graph.next_id
       /\ graph'.next_id <= U16Max
       /\ \A n \in HandleNames :
              /\ handles'[n].id.generation >= handles[n].id.generation
              /\ handles'[n].id.generation <= U16Max]_vars

====
